---- MODULE Spec2Model ----
(***************************************************************************)
(* Progressive quality-tier resolution pipeline of s2_composites_col:      *)
(* the round post-processing manager (4_post_processing_manager.py), the   *)
(* list merger (5_list_combinator.py), the candidate selector              *)
(* (7_best_candidate_selector.py) and the master index generator           *)
(* (8_master_json_generator.py), over a model of the storage bucket and of *)
(* the persisted failing-list files.                                       *)
(*                                                                         *)
(* Text is modelled as sequences of tokens.  A token is one character      *)
(* ("_", "m", ".", " ", "-", a digit) or an atom standing for a fixed      *)
(* piece of text that holds no "_m" marker and no digit run of its own     *)
(* (a directory such as "metadata_v9/", the base name of the exported      *)
(* files, an extension).  Coverage fractions are integers in percent.      *)
(***************************************************************************)
EXTENDS Integers, Sequences, FiniteSets, TLC

VARIABLES
    bucket,   \* the GCS bucket: a set of blobs [name, body], names unique
    files,    \* the local list files: name -> sequence of lines, or NoFile
    pc,       \* position of the operator in the pipeline: [stage, k]
    reports,  \* tier -> what process_round logged for it
    merged,   \* what merge_lists read and wrote: the runs so far
    csv,      \* rows written by select_best_candidate, or NotWritten
    master    \* entries written by generate_master_index, or NotWritten

vars == <<bucket, files, pc, reports, merged, csv, master>>

----------------------------------------------------------------------------
(* Text helpers *)

Digits == {"0", "1", "2", "3", "4", "5", "6", "7", "8", "9"}

IsDigit(c) == c \in Digits

\* The value None of the code; no text is equal to it.
None == <<"None">>

\* A file that does not exist; no list of lines is equal to it.
NoFile == << <<"ENOENT">> >>

\* A key that a JSON object does not hold.
Absent == 0 - 1

StartsWith(s, p) == Len(s) >= Len(p) /\ SubSeq(s, 1, Len(p)) = p

\* old in s: old is a substring of s
Contains(s, old) ==
    \E i \in 1..(Len(s) - Len(old) + 1) : SubSeq(s, i, i + Len(old) - 1) = old

\* s.endswith("." + ext)
EndsWithExt(s, ext) == Len(s) >= 2 /\ s[Len(s) - 1] = "." /\ s[Len(s)] = ext

\* s.replace(old, new): every occurrence, left to right, not overlapping
RECURSIVE Replace(_, _, _)
Replace(s, old, new) ==
    IF Len(s) < Len(old) THEN s
    ELSE IF StartsWith(s, old)
         THEN new \o Replace(SubSeq(s, Len(old) + 1, Len(s)), old, new)
         ELSE <<Head(s)>> \o Replace(Tail(s), old, new)

\* the digits at the start of s, up to the first character that is no digit
RECURSIVE DigitRun(_)
DigitRun(s) ==
    IF s = <<>> \/ ~IsDigit(Head(s)) THEN <<>>
    ELSE <<Head(s)>> \o DigitRun(Tail(s))

Marker == <<"_", "m">>

MarkerAt(s) == {i \in 1..(Len(s) - 1) : SubSeq(s, i, i + 1) = Marker}

\* index 1 for index -1: what follows the first marker, up to the next one
SplitLast_First(s) ==
    IF MarkerAt(s) = {} THEN s
    ELSE LET i == CHOOSE j \in MarkerAt(s) : \A k \in MarkerAt(s) : j <= k
             later == {k \in MarkerAt(s) : k > i}
         IN  IF later = {} THEN SubSeq(s, i + 2, Len(s))
             ELSE SubSeq(s, i + 2, (CHOOSE k \in later : \A h \in later : k <= h) - 1)

\* s.split("_m")[-1]: what follows the last marker, all of s when there is none
SplitLast(s) ==
    IF MarkerAt(s) = {} THEN s
    ELSE LET i == CHOOSE j \in MarkerAt(s) : \A k \in MarkerAt(s) : k <= j
         IN  SubSeq(s, i + 2, Len(s))

\* line.strip()
RECURSIVE LStrip(_)
LStrip(s) == IF s # <<>> /\ Head(s) = " " THEN LStrip(Tail(s)) ELSE s

RECURSIVE RStrip(_)
RStrip(s) ==
    IF s # <<>> /\ s[Len(s)] = " " THEN RStrip(SubSeq(s, 1, Len(s) - 1)) ELSE s

Strip(s) == RStrip(LStrip(s))

\* str(int(s)) of a decimal numeral: the leading zeros go
RECURSIVE StrOfInt(_)
StrOfInt(s) == IF Len(s) > 1 /\ Head(s) = "0" THEN StrOfInt(Tail(s)) ELSE s

\* The order of str: by character code, a proper prefix first.
Alphabet ==
    <<" ", "-", ".", "0", "1", "2", "3", "4", "5", "6", "7", "8", "9", "_",
      "composites_v9/", "geojson", "gs://drycap-tiles-colombia/",
      "low_coverage/", "m", "metadata_v9/",
      "producer_q40_nocap_v2/", "producer_q50_nocap_v2/",
      "producer_q65_nocap_v2/",
      "s2_comp_v9_producer_q40_nocap_v2", "s2_comp_v9_producer_q50_nocap_v2",
      "s2_comp_v9_producer_q65_nocap_v2", "tif">>

Rank(c) == CHOOSE i \in 1..Len(Alphabet) : Alphabet[i] = c

RECURSIVE StrLess(_, _)
StrLess(a, b) ==
    IF b = <<>> THEN FALSE
    ELSE IF a = <<>> THEN TRUE
    ELSE IF Head(a) = Head(b) THEN StrLess(Tail(a), Tail(b))
    ELSE Rank(Head(a)) < Rank(Head(b))

\* sorted(list(S)) of a set of texts
RECURSIVE Sorted(_)
Sorted(S) ==
    IF S = {} THEN <<>>
    ELSE LET lo == CHOOSE x \in S : \A y \in S \ {x} : StrLess(x, y)
         IN  <<lo>> \o Sorted(S \ {lo})

\* sorted(L) of a list of texts: equal elements stay, next to each other
RECURSIVE SortedList(_)
SortedList(L) ==
    IF L = <<>> THEN <<>>
    ELSE LET i == CHOOSE j \in 1..Len(L) :
                      \A k \in 1..Len(L) : ~StrLess(L[k], L[j])
         IN  <<L[i]>> \o SortedList(SubSeq(L, 1, i - 1) \o SubSeq(L, i + 1, Len(L)))

Range(s) == {s[i] : i \in 1..Len(s)}

----------------------------------------------------------------------------
(* The list files *)

Exists(f) == files[f] # NoFile

\* the filter "if line.strip()" left out
ReadIdSet_KeepBlank(lines) == {Strip(l) : l \in Range(lines)}

\* {line.strip() for line in f if line.strip()}
ReadIdSet(lines) == {Strip(l) : l \in {x \in Range(lines) : Strip(x) # <<>>}}

\* [line.strip() for line in f if line.strip()]
ReadIdList(lines) == SelectSeq([i \in 1..Len(lines) |-> Strip(lines[i])],
                               LAMBDA l : l # <<>>)

\* for mpio_id in sorted(list(ids)): f.write(f"{mpio_id}\n")
WriteIdList(ids) == Sorted(ids)

----------------------------------------------------------------------------
(* Configuration: the module-level constants of the scripts.  The scripts   *)
(* are edited between rounds (3_composite_producer.py keeps the history of  *)
(* its edits, lines 12-28): VERSION_SUFFIX names the tier of the round and  *)
(* the output list is named after the next stage.  INITIAL_FAILED_LIST is   *)
(* the list of the initial audit in every round, as the source has it for   *)
(* the round of q40 (4_post_processing_manager.py, lines 13-15).  The       *)
(* sizes the source records agree: the lists handed on hold 156, then 101,  *)
(* then 70 ids (3_composite_producer.py, lines 13 and 15, and               *)
(* 8_master_json_generator.py, line 104), so no round carried the list of   *)
(* the round before it forward.                                             *)

Tiers == <<"q65", "q50", "q40">>

TierSet == Range(Tiers)

PASSED_LIST_FILE == "passed_q65_audit_dynamic.txt"

INITIAL_FAILED_LIST == "failed_q65_audit_dynamic.txt"

INITIAL_FAILURES_FILE == "failed_q65_audit_dynamic.txt"

TARGET_LIST_FILE == "failed_for_next_stage_q50.txt"

FAILED_LIST_FILE == "failed_for_next_stage_q30.txt"

FileNames ==
    {PASSED_LIST_FILE, INITIAL_FAILED_LIST, TARGET_LIST_FILE,
     "failed_for_next_stage_q40.txt", FAILED_LIST_FILE}

OUTPUT_FAILED_LIST(t) ==
    CASE t = "q65" -> "failed_for_next_stage_q50.txt"
      [] t = "q50" -> "failed_for_next_stage_q40.txt"
      [] t = "q40" -> "failed_for_next_stage_q30.txt"

INPUT_LIST_FILE(t) ==
    CASE t = "q65" -> "passed_q65_audit_dynamic.txt"
      [] t = "q50" -> "failed_for_next_stage_q50.txt"
      [] t = "q40" -> "failed_for_next_stage_q40.txt"

\* f"{VERSION_SUFFIX}/"
VersionDir(t) ==
    CASE t = "q65" -> "producer_q65_nocap_v2/"
      [] t = "q50" -> "producer_q50_nocap_v2/"
      [] t = "q40" -> "producer_q40_nocap_v2/"

\* f"s2_comp_v9_{VERSION_SUFFIX}"
BaseName(t) ==
    CASE t = "q65" -> "s2_comp_v9_producer_q65_nocap_v2"
      [] t = "q50" -> "s2_comp_v9_producer_q50_nocap_v2"
      [] t = "q40" -> "s2_comp_v9_producer_q40_nocap_v2"

MINIMUM_COVERAGE_THRESHOLD == 95

ACCEPTABLE_COV == 90

metadata_prefix(t) == <<"metadata_v9/", VersionDir(t)>>

images_prefix(t) == <<"composites_v9/", VersionDir(t)>>

LowCoverage == <<"low_coverage/">>

DirAtoms ==
    {"metadata_v9/", "composites_v9/", "low_coverage/"}
        \cup {VersionDir(t) : t \in TierSet}

----------------------------------------------------------------------------
(* The bucket *)

\* bucket.list_blobs(prefix=prefix)
list_blobs(bk, prefix) == {b \in bk : StartsWith(b.name, prefix)}

\* "low_coverage" in name
InLowCoverage(name) == \E i \in 1..Len(name) : name[i] = "low_coverage/"

\* name.endswith("/")
EndsWithSlash(name) == name # <<>> /\ name[Len(name)] \in DirAtoms

\* name.split("/")[-1]
Basename(name) ==
    LET dirs == {i \in 1..Len(name) : name[i] \in DirAtoms}
    IN  IF dirs = {} THEN name
        ELSE SubSeq(name, (CHOOSE i \in dirs : \A j \in dirs : j <= i) + 1,
                    Len(name))

BlobNamed(bk, name) == {b \in bk : b.name = name}

\* json.loads(blob.download_as_string()) succeeds
JsonLoads(body) == body.kind # "garbage"

\* metadata["features"][0]["properties"] is there
HasProperties(body) == body.kind \in {"ok", "nomid"}

\* props.get(key, 0)
Get(v) == IF v = Absent THEN 0 ELSE v

TifBody == [kind |-> "tif", mid |-> <<>>, c19 |-> Absent, c23 |-> Absent]

----------------------------------------------------------------------------
(* 4_post_processing_manager.py *)

extract_mpio_id_from_filename(filename) ==
    IF MarkerAt(filename) = {} THEN None
    ELSE LET mpio_id == DigitRun(SplitLast(filename))
         IN  IF Len(mpio_id) > 0 THEN mpio_id ELSE None

\* the guard "len(digit_string) > 5" left out: the prefixes are always tried
is_orphan_AnyLength(filename, failed_ids_set) ==
    IF MarkerAt(filename) = {} THEN FALSE
    ELSE LET digit_string == DigitRun(SplitLast(filename))
         IN  IF digit_string = <<>> THEN FALSE
             ELSE LET first(n) ==
                          IF Len(digit_string) <= n THEN digit_string
                          ELSE SubSeq(digit_string, 1, n)
                  IN  \/ digit_string \in failed_ids_set
                      \/ first(5) \in failed_ids_set
                      \/ first(4) \in failed_ids_set

\* every prefix of the digit string is tried, not the first 5 and 4 alone
is_orphan_AnyPrefix(filename, failed_ids_set) ==
    IF MarkerAt(filename) = {} THEN FALSE
    ELSE LET digit_string == DigitRun(SplitLast(filename))
         IN  IF digit_string = <<>> THEN FALSE
             ELSE \/ digit_string \in failed_ids_set
                  \/ /\ Len(digit_string) > 5
                     /\ \E n \in 1..Len(digit_string) :
                            SubSeq(digit_string, 1, n) \in failed_ids_set

is_orphan(filename, failed_ids_set) ==
    IF MarkerAt(filename) = {} THEN FALSE
    ELSE LET digit_string == DigitRun(SplitLast(filename))
         IN  IF digit_string = <<>> THEN FALSE
             ELSE IF digit_string \in failed_ids_set THEN TRUE
             ELSE IF Len(digit_string) > 5
                  THEN \/ SubSeq(digit_string, 1, 5) \in failed_ids_set
                       \/ SubSeq(digit_string, 1, 4) \in failed_ids_set
                  ELSE FALSE

MoveOutcomes == {"ok", "copy_fails", "delete_fails"}

\* source_blob.delete() put before bucket.copy_blob(...)
move_gcs_blob_DeleteFirst(bk, source_blob_name, destination_blob_name, oc) ==
    LET src == BlobNamed(bk, source_blob_name)
        copy == {[name |-> destination_blob_name, body |-> b.body] : b \in src}
        deleted == bk \ src
    IN  IF src = {} THEN bk
        ELSE CASE oc = "delete_fails" -> bk
               [] oc = "copy_fails" -> deleted
               [] OTHER ->
                    (deleted \ BlobNamed(deleted, destination_blob_name)) \cup copy

\* The bucket after move_gcs_blob(bucket, source, destination); oc is what
\* the storage service does with the copy and the delete: the copy raises,
\* the copy is made and the delete raises, or both are done.
move_gcs_blob(bk, source_blob_name, destination_blob_name, oc) ==
    LET src == BlobNamed(bk, source_blob_name)
        copy == {[name |-> destination_blob_name, body |-> b.body] : b \in src}
        copied == (bk \ BlobNamed(bk, destination_blob_name)) \cup copy
    IN  IF src = {} THEN bk
        ELSE CASE oc = "copy_fails" -> bk
               [] oc = "delete_fails" -> copied
               [] OTHER -> copied \ BlobNamed(copied, source_blob_name)

\* the two loops of moves of process_round, over the staged names
RECURSIVE MoveAll(_, _, _, _)
MoveAll(bk, names, prefix, oc) ==
    IF names = {} THEN bk
    ELSE LET n == CHOOSE x \in names : TRUE
             dest_name == Replace(n, prefix, prefix \o LowCoverage)
         IN  MoveAll(move_gcs_blob(bk, n, dest_name, oc[n]),
                     names \ {n}, prefix, oc)

\* "or" for "and": one good period is enough
PassesThreshold_Either(cov19, cov23) ==
    cov19 >= MINIMUM_COVERAGE_THRESHOLD \/ cov23 >= MINIMUM_COVERAGE_THRESHOLD

\* cov19 >= MINIMUM_COVERAGE_THRESHOLD and cov23 >= MINIMUM_COVERAGE_THRESHOLD
PassesThreshold(cov19, cov23) ==
    cov19 >= MINIMUM_COVERAGE_THRESHOLD /\ cov23 >= MINIMUM_COVERAGE_THRESHOLD

\* the try block of the audit loop runs to its end for this blob
Readable(body) == JsonLoads(body) /\ body.kind = "ok"

\* the listing not kept to the tier of the round
metadata_blobs_AllTiers(bk, t) ==
    {b \in bk : /\ b.name[1] = "metadata_v9/"
                /\ EndsWithExt(b.name, "geojson") /\ ~InLowCoverage(b.name)}

metadata_blobs(bk, t) ==
    {b \in list_blobs(bk, metadata_prefix(t)) :
        EndsWithExt(b.name, "geojson") /\ ~InLowCoverage(b.name)}

PassedBlobs(blobs) ==
    {b \in blobs : Readable(b.body)
                   /\ PassesThreshold(Get(b.body.c19), Get(b.body.c23))}

metadata_to_move(blobs) ==
    {b \in blobs : Readable(b.body)
                   /\ ~PassesThreshold(Get(b.body.c19), Get(b.body.c23))}

\* str(props["municipality_id"]) of the blobs staged for the move
low_coverage_ids(blobs) == {b.body.mid : b \in metadata_to_move(blobs)}

\* the test of "low_coverage" in blob.name left out of the scan
orphan_images_WithLow(bk, t, failed) ==
    {b \in list_blobs(bk, images_prefix(t)) :
        /\ ~EndsWithSlash(b.name)
        /\ is_orphan(Basename(b.name), failed)}

orphan_images(bk, t, failed) ==
    {b \in list_blobs(bk, images_prefix(t)) :
        /\ ~(InLowCoverage(b.name) \/ EndsWithSlash(b.name))
        /\ is_orphan(Basename(b.name), failed)}

initial_failures ==
    IF Exists(INITIAL_FAILED_LIST) THEN ReadIdSet(files[INITIAL_FAILED_LIST])
    ELSE {}

\* initial_failures.union(low_coverage_ids)
total_failed_ids(initial, low) == initial \cup low

\* What a run of process_round saw and logged: the list file it read, the
\* blobs it audited, its two counts and the total for the next round.
NoReport ==
    [ran |-> FALSE, moved |-> FALSE, initial_file |-> NoFile, audited |-> {},
     successful_count |-> 0, low_coverage_ids |-> {}, total |-> {}]

\* the moves and the list taken out of the test of PERFORM_MOVE
process_round_AlwaysMoves(t, pm, oc) ==
    LET blobs   == metadata_blobs(bucket, t)
        low     == low_coverage_ids(blobs)
        orphans == orphan_images(bucket, t, low)
        total   == total_failed_ids(initial_failures, low)
        metas   == {b.name : b \in metadata_to_move(blobs)}
        images  == {b.name : b \in orphans}
    IN  /\ reports' = [reports EXCEPT ![t] =
               [ran |-> TRUE, moved |-> pm,
                initial_file |-> files[INITIAL_FAILED_LIST], audited |-> blobs,
                successful_count |-> Cardinality(PassedBlobs(blobs)),
                low_coverage_ids |-> low, total |-> total]]
        /\ bucket' = MoveAll(MoveAll(bucket, metas, metadata_prefix(t), oc),
                             images, images_prefix(t), oc)
        /\ files' = [files EXCEPT ![OUTPUT_FAILED_LIST(t)] = WriteIdList(total)]

\* process_round() with VERSION_SUFFIX that of tier t and PERFORM_MOVE = pm
process_round(t, pm, oc) ==
    LET blobs   == metadata_blobs(bucket, t)
        low     == low_coverage_ids(blobs)
        orphans == orphan_images(bucket, t, low)
        total   == total_failed_ids(initial_failures, low)
        metas   == {b.name : b \in metadata_to_move(blobs)}
        images  == {b.name : b \in orphans}
    IN  /\ reports' = [reports EXCEPT ![t] =
               [ran |-> TRUE, moved |-> pm,
                initial_file |-> files[INITIAL_FAILED_LIST], audited |-> blobs,
                successful_count |-> Cardinality(PassedBlobs(blobs)),
                low_coverage_ids |-> low, total |-> total]]
        /\ IF pm
           THEN /\ bucket' = MoveAll(MoveAll(bucket, metas, metadata_prefix(t), oc),
                                     images, images_prefix(t), oc)
                /\ files' = [files EXCEPT ![OUTPUT_FAILED_LIST(t)] =
                                 WriteIdList(total)]
           ELSE UNCHANGED <<bucket, files>>

\* the file name forgotten: every blob goes to the low-coverage directory
dest_name_NoFileName(name, prefix) == prefix \o LowCoverage

\* blob.name.replace(prefix, f"{prefix}low_coverage/")
dest_name(name, prefix) == Replace(name, prefix, prefix \o LowCoverage)

\* the moves of a run in the order of the two loops: the staged metadata,
\* then the orphan images, each as <<source, destination>>
StagedMoves(bk, t) ==
    LET blobs  == metadata_blobs(bk, t)
        metas  == Sorted({b.name : b \in metadata_to_move(blobs)})
        images == Sorted({b.name : b \in orphan_images(bk, t, low_coverage_ids(blobs))})
    IN  [i \in 1..Len(metas) |-> <<metas[i], dest_name(metas[i], metadata_prefix(t))>>]
          \o [i \in 1..Len(images) |->
                 <<images[i], dest_name(images[i], images_prefix(t))>>]

StagedNames(t) ==
    {b.name : b \in metadata_to_move(metadata_blobs(bucket, t))}
        \cup {b.name : b \in orphan_images(bucket, t,
                           low_coverage_ids(metadata_blobs(bucket, t)))}

----------------------------------------------------------------------------
(* 5_list_combinator.py *)

\* The runs of merge_lists so far: the two files as the latest run found
\* them, and the target as the first run left it.
NotMerged ==
    [ran |-> FALSE, again |-> FALSE, initial_file |-> NoFile,
     target_file |-> NoFile, first |-> NoFile]

\* the initial failures are forgotten
combined_set_Lossy(initial_set, producer_set) == producer_set

\* initial_set.union(producer_set)
combined_set(initial_set, producer_set) == initial_set \cup producer_set

merge_lists ==
    LET initial_set  == IF Exists(INITIAL_FAILURES_FILE)
                        THEN ReadIdSet(files[INITIAL_FAILURES_FILE]) ELSE {}
        producer_set == IF Exists(TARGET_LIST_FILE)
                        THEN ReadIdSet(files[TARGET_LIST_FILE]) ELSE {}
        out == WriteIdList(combined_set(initial_set, producer_set))
    IN  /\ files' = [files EXCEPT ![TARGET_LIST_FILE] = out]
        /\ merged' = [ran |-> TRUE, again |-> merged.ran,
                      initial_file |-> files[INITIAL_FAILURES_FILE],
                      target_file |-> files[TARGET_LIST_FILE],
                      first |-> IF merged.ran THEN merged.first ELSE out]

----------------------------------------------------------------------------
(* 7_best_candidate_selector.py *)

\* the first blob of a listing: list_blobs yields the names in order
First(blobs) ==
    CHOOSE b \in blobs : \A o \in blobs \ {b} : StrLess(b.name, o.name)

NoStats == [some |-> FALSE, c19 |-> 0, c23 |-> 0]

\* SOURCES[q] of the selector: the low-coverage area of the tier's metadata
SelectorSource(q) == metadata_prefix(q) \o LowCoverage

get_coverage_stats(bk, prefix, mpio_id) ==
    LET hits == {b \in list_blobs(bk, prefix) :
                    Contains(b.name, Marker \o mpio_id \o <<".">>)}
    IN  IF hits = {} THEN NoStats
        ELSE LET body == First(hits).body
             IN  IF JsonLoads(body) /\ HasProperties(body)
                 THEN [some |-> TRUE, c19 |-> Get(body.c19), c23 |-> Get(body.c23)]
                 ELSE NoStats

Min(a, b) == IF a <= b THEN a ELSE b

Max3(a, b, c) ==
    IF a >= b /\ a >= c THEN a ELSE IF b >= c THEN b ELSE c

\* s and s["c19"] >= ACCEPTABLE_COV and s["c23"] >= ACCEPTABLE_COV
StrictPass(s) == s.some /\ s.c19 >= ACCEPTABLE_COV /\ s.c23 >= ACCEPTABLE_COV

\* the better of the two periods for the worse
min_cov_Better(s) ==
    IF s.some THEN (IF s.c19 >= s.c23 THEN s.c19 ELSE s.c23) ELSE 0

min_cov(s) == IF s.some THEN Min(s.c19, s.c23) ELSE 0

\* the tie-break turned round: the lowest tier is tried first
BestAvailable_LowestFirst(s65, s50, s40) ==
    LET best_val == Max3(min_cov(s65), min_cov(s50), min_cov(s40))
    IN  IF best_val = min_cov(s40) THEN "q40"
        ELSE IF best_val = min_cov(s50) THEN "q50"
        ELSE "q65"

\* the "desperation" branch: no tier passed the strict check
BestAvailable(s65, s50, s40) ==
    LET best_val == Max3(min_cov(s65), min_cov(s50), min_cov(s40))
    IN  IF best_val = min_cov(s65) THEN "q65"
        ELSE IF best_val = min_cov(s50) THEN "q50"
        ELSE "q40"

\* the strict checks turned round: the lowest tier is tried first
Candidate_LowestFirst(s65, s50, s40) ==
    IF StrictPass(s40)
    THEN [winner |-> "q40", reason |-> "Low Quality Pass"]
    ELSE IF StrictPass(s50)
    THEN [winner |-> "q50", reason |-> "Medium Quality Pass"]
    ELSE IF StrictPass(s65)
    THEN [winner |-> "q65", reason |-> "High Quality Pass"]
    ELSE [winner |-> BestAvailable(s65, s50, s40),
          reason |-> "Best Available (Failed Strict)"]

\* winner and reason of one municipality
Candidate(s65, s50, s40) ==
    IF StrictPass(s65)
    THEN [winner |-> "q65", reason |-> "High Quality Pass"]
    ELSE IF StrictPass(s50)
    THEN [winner |-> "q50", reason |-> "Medium Quality Pass"]
    ELSE IF StrictPass(s40)
    THEN [winner |-> "q40", reason |-> "Low Quality Pass"]
    ELSE [winner |-> BestAvailable(s65, s50, s40),
          reason |-> "Best Available (Failed Strict)"]

CsvRow(bk, mpio_id) ==
    LET s65 == get_coverage_stats(bk, SelectorSource("q65"), mpio_id)
        s50 == get_coverage_stats(bk, SelectorSource("q50"), mpio_id)
        s40 == get_coverage_stats(bk, SelectorSource("q40"), mpio_id)
        c   == Candidate(s65, s50, s40)
    IN  [id |-> mpio_id, winner |-> c.winner, reason |-> c.reason,
         s65 |-> s65, s50 |-> s50, s40 |-> s40]

\* open(list_path) raises when the list is not there: nothing is written
select_best_candidate ==
    /\ Exists(FAILED_LIST_FILE)
    /\ LET target_ids == ReadIdList(files[FAILED_LIST_FILE])
       IN  csv' = [i \in 1..Len(target_ids) |-> CsvRow(bucket, target_ids[i])]

----------------------------------------------------------------------------
(* 8_master_json_generator.py *)

extract_id(filename) == DigitRun(SplitLast(filename))

NoneBody == [kind |-> "None", mid |-> <<>>, c19 |-> Absent, c23 |-> Absent]

get_metadata_content(bk, prefix, mpio_id) ==
    LET pat  == Marker \o mpio_id \o <<".">>
        main == {b \in list_blobs(bk, prefix) :
                    /\ Contains(b.name, pat)
                    /\ EndsWithExt(b.name, "geojson")
                    /\ ~InLowCoverage(b.name)}
        low  == {b \in list_blobs(bk, prefix \o LowCoverage) :
                    Contains(b.name, pat) /\ EndsWithExt(b.name, "geojson")}
        hits == IF main # {} THEN main ELSE low
    IN  IF hits = {} THEN NoneBody
        ELSE IF JsonLoads(First(hits).body) THEN First(hits).body
        ELSE NoneBody

GsPath(name) == <<"gs://drycap-tiles-colombia/">> \o name

find_images_for_id(bk, prefix, mpio_id) ==
    LET target_pattern == Marker \o mpio_id
        hit(b)    == EndsWithExt(b.name, "tif") /\ Contains(b.name, target_pattern)
        images    == Sorted({GsPath(b.name) : b \in {x \in list_blobs(bk, prefix) : hit(x)}})
        images_low == Sorted({GsPath(b.name) :
                        b \in {x \in list_blobs(bk, prefix \o LowCoverage) : hit(x)}})
    IN  SortedList(images \o images_low)

\* m["features"][0]["properties"] raises
Raises(m) == m.kind # "None" /\ ~HasProperties(m)

\* check(m) of the waterfall branch, where it does not raise
check(m) ==
    IF m.kind = "None" THEN FALSE
    ELSE Get(m.c19) >= ACCEPTABLE_COV /\ Get(m.c23) >= ACCEPTABLE_COV

low_cov_ids ==
    IF Exists(FAILED_LIST_FILE) THEN ReadIdSet(files[FAILED_LIST_FILE]) ELSE {}

SuccessBlobs(bk, q) ==
    {b \in list_blobs(bk, metadata_prefix(q)) :
        /\ EndsWithExt(b.name, "geojson")
        /\ ~InLowCoverage(b.name)
        /\ extract_id(b.name) # <<>>
        /\ extract_id(b.name) \notin low_cov_ids}

\* the keys of success_map
SuccessIds(bk) == {extract_id(b.name) : b \in UNION {SuccessBlobs(bk, q) : q \in TierSet}}

\* success_map[mid]: the first tier of the priority scan that holds the id
success_map(bk, mid) ==
    LET held(q) == \E b \in SuccessBlobs(bk, q) : extract_id(b.name) = mid
    IN  Tiers[CHOOSE i \in 1..Len(Tiers) :
                  held(Tiers[i]) /\ \A j \in 1..(i - 1) : ~held(Tiers[j])]

\* the units without an image left out
all_target_ids_WithImages(bk) ==
    Sorted({u \in low_cov_ids \cup SuccessIds(bk) :
               \E b \in bk : EndsWithExt(b.name, "tif")
                              /\ Contains(b.name, Marker \o u)})

all_target_ids(bk) == Sorted(low_cov_ids \cup SuccessIds(bk))

\* case A: the waterfall of the master index
WaterfallChoice(meta65, meta50, meta40) ==
    IF check(meta65)
    THEN [winner |-> "q65", reason |-> "Strict Waterfall Pass"]
    ELSE IF check(meta50)
    THEN [winner |-> "q50", reason |-> "Strict Waterfall Pass"]
    ELSE IF check(meta40)
    THEN [winner |-> "q40", reason |-> "Strict Waterfall Pass"]
    ELSE [winner |-> "q40", reason |-> "Best Available Fallback"]

\* the first check(m) that is evaluated and raises, if any
WaterfallRaises(meta65, meta50, meta40) ==
    \/ Raises(meta65)
    \/ ~check(meta65) /\ Raises(meta50)
    \/ ~check(meta65) /\ ~check(meta50) /\ Raises(meta40)

Choice(bk, mpio_id) ==
    IF mpio_id \in low_cov_ids
    THEN WaterfallChoice(get_metadata_content(bk, metadata_prefix("q65"), mpio_id),
                         get_metadata_content(bk, metadata_prefix("q50"), mpio_id),
                         get_metadata_content(bk, metadata_prefix("q40"), mpio_id))
    ELSE [winner |-> success_map(bk, mpio_id), reason |-> "Standard Audit Pass"]

Entry(bk, mpio_id) ==
    LET c == Choice(bk, mpio_id)
    IN  [id |-> mpio_id,
         selected_quality |-> c.winner,
         selection_reason |-> c.reason,
         image_files |-> find_images_for_id(bk, images_prefix(c.winner), mpio_id),
         properties |-> get_metadata_content(bk, metadata_prefix(c.winner), mpio_id)]

\* the loop stops with an exception at this id: no index is written
EntryRaises(bk, mpio_id) ==
    \/ /\ mpio_id \in low_cov_ids
       /\ WaterfallRaises(get_metadata_content(bk, metadata_prefix("q65"), mpio_id),
                          get_metadata_content(bk, metadata_prefix("q50"), mpio_id),
                          get_metadata_content(bk, metadata_prefix("q40"), mpio_id))
    \/ /\ ~(/\ mpio_id \in low_cov_ids
            /\ WaterfallRaises(
                   get_metadata_content(bk, metadata_prefix("q65"), mpio_id),
                   get_metadata_content(bk, metadata_prefix("q50"), mpio_id),
                   get_metadata_content(bk, metadata_prefix("q40"), mpio_id)))
       /\ Raises(get_metadata_content(
              bk, metadata_prefix(Choice(bk, mpio_id).winner), mpio_id))

\* an exception leaves the loop before json.dump: no index is written
IndexRaises ==
    LET ids == all_target_ids(bucket)
    IN  \E i \in 1..Len(ids) : EntryRaises(bucket, ids[i])

\* the output file opened with "a": the entries are added to the old ones
json_dump_Append(old, master_list) == old \o master_list

\* with open(out_path, "w") as f: json.dump(master_list, f, indent=2)
json_dump(old, master_list) == master_list

generate_master_index ==
    LET ids == all_target_ids(bucket)
    IN  master' = IF IndexRaises THEN master
                  ELSE json_dump(master, [i \in 1..Len(ids) |-> Entry(bucket, ids[i])])

----------------------------------------------------------------------------
(* The exported artifacts (3_composite_producer.py, lines 226-281) *)

\* Municipality codes have four or five digits; the first is a prefix of
\* the second.
Units == {<<"5", "0", "0", "1">>, <<"5", "0", "0", "1", "0">>}

\* f"metadata_v9/{VERSION_SUFFIX}/{base_filename}" + ".geojson"
MetaName(t, id) ==
    metadata_prefix(t) \o <<BaseName(t)>> \o Marker \o id \o <<".", "geojson">>

\* f"composites_v9/{VERSION_SUFFIX}/{base_filename}" + ".tif"
ImageName(t, id) ==
    images_prefix(t) \o <<BaseName(t)>> \o Marker \o id \o <<".", "tif">>

\* the feature the producer exports for a unit: municipality_id is int(id)
MetaBody(id, c19, c23) ==
    [kind |-> "ok", mid |-> StrOfInt(id), c19 |-> c19, c23 |-> c23]

\* a blob that is not the export of the producer
BrokenBody(kind) == [kind |-> kind, mid |-> <<>>, c19 |-> Absent, c23 |-> Absent]

UnitOf(b) == DigitRun(SplitLast(b.name))

----------------------------------------------------------------------------
(* Specification SpecOps: one run or more of merge_lists and of             *)
(* process_round (configured as the source has it, for the tier q40) from   *)
(* any list files and any content of the tier's primary area.               *)

\* the lines of the two list files together
MaxLines == 3

LineVals ==
    {<<>>, <<"5", "0", "0", "1">>, <<" ", "5", "0", "0", "1", " ">>,
     <<"5", "0", "0", "1", "0">>}

RECURSIVE SeqsUpTo(_, _)
SeqsUpTo(S, n) ==
    IF n = 0 THEN {<<>>}
    ELSE LET shorter == SeqsUpTo(S, n - 1)
         IN  shorter \cup {Append(q, x) : q \in shorter, x \in S}

FileContents == SeqsUpTo(LineVals, MaxLines) \cup {NoFile}

CovVals == {Absent, 94, 95}

RichBodies(id) ==
    {MetaBody(id, a, b) : a \in CovVals, b \in CovVals}
        \cup {BrokenBody(k) : k \in {"garbage", "nofeatures", "nomid"}}

\* what a tier's primary area may hold for one unit
UnitBlobs(t, id, bodies) ==
    {{}} \cup {{[name |-> MetaName(t, id), body |-> m],
                [name |-> ImageName(t, id), body |-> TifBody]} : m \in bodies}

RECURSIVE Buckets(_, _, _)
Buckets(t, ids, K) ==
    IF ids = {} THEN {{}}
    ELSE LET id == CHOOSE x \in ids : TRUE
         IN  {a \cup b : a \in UnitBlobs(t, id, K[id]),
                         b \in Buckets(t, ids \ {id}, K)}

NoFiles == [f \in FileNames |-> NoFile]

NotWritten == <<>>

InitRest ==
    /\ reports = [t \in TierSet |-> NoReport]
    /\ merged = NotMerged
    /\ csv = NotWritten
    /\ master = NotWritten

Lines(content) == IF content = NoFile THEN 0 ELSE Len(content)

\* any two list files, a small primary area
InitLists ==
    /\ \E a \in FileContents, b \in FileContents :
          /\ Lines(a) + Lines(b) <= MaxLines
          /\ files = [NoFiles EXCEPT ![INITIAL_FAILURES_FILE] = a,
                                     ![TARGET_LIST_FILE] = b]
    /\ \E id \in Units : bucket \in UnitBlobs("q40", id, {MetaBody(id, 94, 95)})

\* any primary area, the list of a set of units
InitRound ==
    /\ \E F \in SUBSET Units :
          files = [NoFiles EXCEPT ![INITIAL_FAILED_LIST] = WriteIdList(F)]
    /\ bucket \in Buckets("q40", Units, [id \in Units |-> RichBodies(id)])

InitOps ==
    /\ pc = [stage |-> "ops", k |-> 3]
    /\ InitRest
    /\ InitLists \/ InitRound

OpsMerge ==
    /\ pc.stage = "ops"
    /\ merge_lists
    /\ UNCHANGED <<bucket, pc, reports, csv, master>>

OpsRound ==
    /\ pc.stage = "ops"
    /\ \E pm \in BOOLEAN :
       \E oc \in [StagedNames(Tiers[pc.k]) -> {"ok"}] :
          process_round(Tiers[pc.k], pm, oc)
    /\ UNCHANGED <<pc, merged, csv, master>>

NextOps == OpsMerge \/ OpsRound

SpecOps == InitOps /\ [][NextOps]_vars

----------------------------------------------------------------------------
(* Specification Spec: the pipeline, from the two lists of the initial      *)
(* audit to the master index.  For each tier in turn the producer exports   *)
(* the units of its input list, then process_round audits the tier; then    *)
(* the candidates are selected and the index is built.  The storage         *)
(* service is reliable here: every move succeeds.                           *)

\* what the compositing engine leaves for a unit it was asked for
PipelineBodies(id) ==
    {MetaBody(id, 100, 100), MetaBody(id, 92, 92), MetaBody(id, 20, 10),
     BrokenBody("garbage")}

\* the blobs of these names are replaced by the new exports
Put(bk, blobs) == {b \in bk : b.name \notin {n.name : n \in blobs}} \cup blobs

\* python 3_composite_producer.py for tier t: every unit of the input list
\* is skipped or exported
Producer(t) ==
    /\ Exists(INPUT_LIST_FILE(t))
    /\ LET ids == Range(ReadIdList(files[INPUT_LIST_FILE(t)]))
       IN  \E new \in Buckets(t, ids, [id \in ids |-> PipelineBodies(id)]) :
              bucket' = Put(bucket, new)

Init ==
    /\ pc = [stage |-> "producer", k |-> 1]
    /\ bucket = {}
    /\ \E F \in SUBSET Units :
          files = [NoFiles EXCEPT ![PASSED_LIST_FILE] = WriteIdList(Units \ F),
                                  ![INITIAL_FAILED_LIST] = WriteIdList(F)]
    /\ InitRest

Produce ==
    /\ pc.stage = "producer"
    /\ Producer(Tiers[pc.k])
    /\ pc' = [pc EXCEPT !.stage = "postprocess"]
    /\ UNCHANGED <<files, reports, merged, csv, master>>

\* a dry run (PERFORM_MOVE = False) is followed by the run that moves
PostProcess ==
    /\ pc.stage = "postprocess"
    /\ \E pm \in BOOLEAN :
          /\ process_round(Tiers[pc.k], pm, [n \in StagedNames(Tiers[pc.k]) |-> "ok"])
          /\ pc' = IF ~pm THEN pc
                   ELSE IF pc.k < Len(Tiers)
                        THEN [stage |-> "producer", k |-> pc.k + 1]
                        ELSE [stage |-> "select", k |-> pc.k]
    /\ UNCHANGED <<merged, csv, master>>

\* python 5_list_combinator.py, before the list of the first round is used
MergeLists ==
    /\ pc = [stage |-> "producer", k |-> 2]
    /\ merge_lists
    /\ UNCHANGED <<bucket, pc, reports, csv, master>>

Select ==
    /\ pc.stage = "select"
    /\ select_best_candidate
    /\ pc' = [pc EXCEPT !.stage = "index"]
    /\ UNCHANGED <<bucket, files, reports, merged, master>>

BuildIndex ==
    /\ pc.stage = "index"
    /\ generate_master_index
    /\ pc' = [pc EXCEPT !.stage = IF IndexRaises THEN "crashed" ELSE "done"]
    /\ UNCHANGED <<bucket, files, reports, merged, csv>>

Next == Produce \/ PostProcess \/ MergeLists \/ Select \/ BuildIndex

Spec == Init /\ [][Next]_vars

----------------------------------------------------------------------------
(* Specification SpecSel: select_best_candidate and generate_master_index   *)
(* for one unit of the failing list, from any coverage records in the low-  *)
(* coverage areas of the three tiers.                                       *)

SelUnit == <<"5", "0", "0", "1">>

SelCov == {Absent, 50, 90, 95}

SelBodies ==
    {MetaBody(SelUnit, a, b) : a \in SelCov, b \in SelCov}
        \cup {BrokenBody("garbage")}

\* the record of the unit in the low-coverage area of tier t, or none
LowRecord(t) ==
    {{}} \cup {{[name |-> Replace(MetaName(t, SelUnit), metadata_prefix(t),
                                  metadata_prefix(t) \o LowCoverage),
                 body |-> m]} : m \in SelBodies}

InitSel ==
    /\ pc = [stage |-> "select", k |-> 0]
    /\ \E a \in LowRecord("q65"), b \in LowRecord("q50"), c \in LowRecord("q40") :
          bucket = a \cup b \cup c
    /\ files = [NoFiles EXCEPT ![FAILED_LIST_FILE] = WriteIdList({SelUnit})]
    /\ InitRest

NextSel == Select \/ BuildIndex

SpecSel == InitSel /\ [][NextSel]_vars

----------------------------------------------------------------------------
(* Specification SpecOrphan: one round of process_round for the tier q40    *)
(* over images whose names carry digit runs of three to seven digits and    *)
(* metadata whose ids are equal to, or a prefix, a suffix or an inner part  *)
(* of those runs.                                                           *)

OrphanIds ==
    {<<"3", "4", "5">>, <<"2", "3", "4">>, <<"1", "2", "3", "4">>,
     <<"1", "2", "3", "4", "5">>, <<"1", "2", "3">>,
     <<"1", "2", "3", "4", "5", "0">>}

\* the digit runs of the image names: an id, and an id with a tile digit
OrphanRuns ==
    {<<"3", "4", "5">>, <<"1", "2", "3", "4">>, <<"1", "2", "3", "4", "5">>,
     <<"1", "2", "3", "4", "5", "0">>, <<"1", "2", "3", "4", "5", "0", "0">>}

\* the metadata of a unit: none, below the threshold, or passing
OrphanRecord(id) ==
    {{}} \cup {{[name |-> MetaName("q40", id), body |-> MetaBody(id, c, 95)]} :
                  c \in {94, 95}}

RECURSIVE OrphanRecords(_)
OrphanRecords(ids) ==
    IF ids = {} THEN {{}}
    ELSE LET id == CHOOSE x \in ids : TRUE
         IN  {a \cup b : a \in OrphanRecord(id), b \in OrphanRecords(ids \ {id})}

OrphanImages ==
    {{[name |-> ImageName("q40", r), body |-> TifBody] : r \in R} :
        R \in SUBSET OrphanRuns}

InitOrphan ==
    /\ pc = [stage |-> "ops", k |-> 3]
    /\ InitRest
    /\ files = [NoFiles EXCEPT ![INITIAL_FAILED_LIST] = <<>>]
    /\ \E records \in OrphanRecords(OrphanIds), images \in OrphanImages :
          bucket = records \cup images

\* dry runs, then the run that moves
OrphanRound ==
    /\ pc.stage = "ops"
    /\ ~reports[Tiers[pc.k]].moved
    /\ \E pm \in BOOLEAN :
          process_round(Tiers[pc.k], pm, [n \in StagedNames(Tiers[pc.k]) |-> "ok"])
    /\ UNCHANGED <<pc, merged, csv, master>>

NextOrphan == OrphanRound

SpecOrphan == InitOrphan /\ [][NextOrphan]_vars

----------------------------------------------------------------------------
(* Specification SpecMove: runs of process_round with PERFORM_MOVE = True   *)
(* for the tier q40, one call of move_gcs_blob at a time, over a storage    *)
(* service that may fail and a process that may be killed.  A process       *)
(* killed between the copy and the delete of a move leaves the bucket as a  *)
(* delete that raises does, so a kill is taken between two moves.  A run    *)
(* that was killed or has ended may be followed by another run.  pc holds,  *)
(* besides the position, the moves still to do, the moves of the run, the   *)
(* bucket as it was before the first run and what was in both areas when a  *)
(* run was killed.                                                          *)

\* the runs of the round
MaxRuns == 2

MoveBodies(id) == {MetaBody(id, 94, 95), MetaBody(id, 95, 95)}

\* what another tier holds for a unit: nothing, a record and an image in
\* its primary area (its round was a dry run), or both in its low area
OtherTier(t, id) ==
    LET main == {[name |-> MetaName(t, id), body |-> MetaBody(id, 94, 95)],
                 [name |-> ImageName(t, id), body |-> TifBody]}
    IN  {{}, main,
         {[name |-> dest_name(b.name, SubSeq(b.name, 1, 2)), body |-> b.body] :
             b \in main}}

InitMove ==
    /\ InitRest
    /\ \E F \in SUBSET Units :
          files = [NoFiles EXCEPT ![INITIAL_FAILED_LIST] = WriteIdList(F)]
    /\ \E own \in Buckets("q40", Units, [id \in Units |-> MoveBodies(id)]),
          other \in OtherTier("q50", <<"5", "0", "0", "1">>) :
          bucket = own \cup other
    /\ pc = [stage |-> "idle", k |-> 3, runs |-> 0, todo |-> <<>>,
             staged |-> <<>>, orig |-> bucket, dups |-> {}]

\* lines 116-231: the audit and the staging of a run
MoveAudit ==
    /\ pc.stage \in {"idle", "killed", "done"}
    /\ pc.runs < MaxRuns
    /\ LET t     == Tiers[pc.k]
           blobs == metadata_blobs(bucket, t)
           low   == low_coverage_ids(blobs)
       IN  /\ reports' = [reports EXCEPT ![t] =
                  [ran |-> TRUE, moved |-> TRUE,
                   initial_file |-> files[INITIAL_FAILED_LIST], audited |-> blobs,
                   successful_count |-> Cardinality(PassedBlobs(blobs)),
                   low_coverage_ids |-> low,
                   total |-> total_failed_ids(initial_failures, low)]]
           /\ pc' = [pc EXCEPT !.stage = "moving", !.runs = pc.runs + 1,
                               !.todo = StagedMoves(bucket, t),
                               !.staged = StagedMoves(bucket, t)]
    /\ UNCHANGED <<bucket, files, merged, csv, master>>

\* move_gcs_blob lets what the storage service raises go up to the loop
after_move_Raises(todo, oc) == IF oc = "ok" THEN Tail(todo) ELSE <<>>

\* lines 68-78 and 236-248: move_gcs_blob returns False when the source is
\* missing or the service raises, and the for loops go on to the next blob
after_move(todo, oc) == Tail(todo)

\* lines 233-248: the next call of move_gcs_blob
MoveStep ==
    /\ pc.stage = "moving"
    /\ pc.todo # <<>>
    /\ \E oc \in MoveOutcomes :
          /\ bucket' = move_gcs_blob(bucket, Head(pc.todo)[1], Head(pc.todo)[2], oc)
          /\ pc' = [pc EXCEPT !.todo = after_move(pc.todo, oc)]
    /\ UNCHANGED <<files, reports, merged, csv, master>>

\* lines 250-255: the list for the next round is written
MoveWrite ==
    /\ pc.stage = "moving"
    /\ pc.todo = <<>>
    /\ files' = [files EXCEPT ![OUTPUT_FAILED_LIST(Tiers[pc.k])] =
                     WriteIdList(reports[Tiers[pc.k]].total)]
    /\ pc' = [pc EXCEPT !.stage = "done"]
    /\ UNCHANGED <<bucket, reports, merged, csv, master>>

\* the process is killed: nothing more is moved, no list is written
MoveKill ==
    /\ pc.stage = "moving"
    /\ pc' = [pc EXCEPT !.stage = "killed", !.todo = <<>>,
                        !.dups = {m \in Range(pc.staged) :
                                     /\ BlobNamed(bucket, m[1]) # {}
                                     /\ BlobNamed(bucket, m[2]) # {}}]
    /\ UNCHANGED <<bucket, files, reports, merged, csv, master>>

NextMove == MoveAudit \/ MoveStep \/ MoveWrite \/ MoveKill

SpecMove == InitMove /\ [][NextMove]_vars

----------------------------------------------------------------------------
(* Specification SpecBestEffort: a run of process_round with PERFORM_MOVE   *)
(* = True as in SpecMove, never killed, while something else deletes blobs  *)
(* of the bucket, so that a staged blob may be gone when its move comes.    *)

InitBestEffort == InitMove

\* the blob next to be moved is deleted by another client of the bucket
MoveVanish ==
    /\ pc.stage = "moving"
    /\ pc.todo # <<>>
    /\ BlobNamed(bucket, Head(pc.todo)[1]) # {}
    /\ bucket' = bucket \ BlobNamed(bucket, Head(pc.todo)[1])
    /\ UNCHANGED <<files, pc, reports, merged, csv, master>>

NextBestEffort == MoveAudit \/ MoveStep \/ MoveWrite \/ MoveVanish

SpecBestEffort == InitBestEffort /\ [][NextBestEffort]_vars

----------------------------------------------------------------------------
(* Specification SpecIdx: the dry-run audit of the tier q40, the candidate  *)
(* selection and the master index, the index built more than once, over     *)
(* two units whose q40 record is in the primary or in the low-coverage      *)
(* area, readable or not, and whose image is in either area or missing.     *)
(* pc counts the builds of the index and keeps the first output.            *)

\* the runs of generate_master_index
MaxBuilds == 2

IdxBodies(id) ==
    {MetaBody(id, 95, 95), MetaBody(id, 50, 50),
     BrokenBody("garbage"), BrokenBody("nofeatures")}

\* a blob in the primary area of its tier, or relocated
InArea(b, low) ==
    IF low THEN [name |-> dest_name(b.name, SubSeq(b.name, 1, 2)), body |-> b.body]
    ELSE b

IdxRecord(id) ==
    {{}} \cup {{InArea([name |-> MetaName("q40", id), body |-> m], low)} :
                  m \in IdxBodies(id), low \in BOOLEAN}

IdxImage(id) ==
    {{}} \cup {{InArea([name |-> ImageName("q40", id), body |-> TifBody], low)} :
                  low \in BOOLEAN}

RECURSIVE IdxBuckets(_)
IdxBuckets(ids) ==
    IF ids = {} THEN {{}}
    ELSE LET id == CHOOSE x \in ids : TRUE
         IN  {r \cup i \cup b : r \in IdxRecord(id), i \in IdxImage(id),
                                 b \in IdxBuckets(ids \ {id})}

InitIdx ==
    /\ InitRest
    /\ \E F \in SUBSET Units :
          files = [NoFiles EXCEPT ![FAILED_LIST_FILE] = WriteIdList(F),
                                  ![INITIAL_FAILED_LIST] = WriteIdList(F)]
    /\ bucket \in IdxBuckets(Units)
    /\ pc = [stage |-> "idx", k |-> 3, selected |-> FALSE, builds |-> 0,
             raised |-> FALSE, first |-> NotWritten]

\* python 4_post_processing_manager.py with PERFORM_MOVE = False
IdxAudit ==
    /\ pc.stage = "idx"
    /\ process_round(Tiers[pc.k], FALSE, [n \in StagedNames(Tiers[pc.k]) |-> "ok"])
    /\ UNCHANGED <<pc, merged, csv, master>>

IdxSelect ==
    /\ pc.stage = "idx"
    /\ select_best_candidate
    /\ pc' = [pc EXCEPT !.selected = TRUE]
    /\ UNCHANGED <<bucket, files, reports, merged, master>>

IdxBuild ==
    /\ pc.stage = "idx"
    /\ pc.builds < MaxBuilds
    /\ generate_master_index
    /\ pc' = [pc EXCEPT !.builds = pc.builds + 1,
                        !.raised = IndexRaises,
                        !.first = IF pc.builds = 0 THEN master' ELSE pc.first]
    /\ UNCHANGED <<bucket, files, reports, merged, csv>>

NextIdx == IdxAudit \/ IdxSelect \/ IdxBuild

SpecIdx == InitIdx /\ [][NextIdx]_vars

----------------------------------------------------------------------------
(* Specification SpecNames: the round of q40 with moves, and the master     *)
(* index, over blobs of the tier whose names have no marker, a marker with  *)
(* no digit after it, two markers, or digits after the id.                  *)

\* the file names, without the extension
OddNames ==
    {<<BaseName("q40")>> \o Marker \o <<"5", "0", "0", "1">>,
     <<BaseName("q40")>>,
     <<BaseName("q40")>> \o Marker,
     <<BaseName("q40")>> \o Marker \o <<"5", "0", "0", "1">>
         \o Marker \o <<"5", "0", "0", "1", "0">>,
     <<BaseName("q40")>> \o Marker \o <<"5", "0", "0", "1", "-", "0", "0">>,
     <<BaseName("q40")>> \o Marker \o <<"5", "0", "0", "1">> \o Marker,
     <<"5", "0", "0", "1">>}

\* the names of the metadata besides the record of unit 5001
OddRecords ==
    {<<BaseName("q40")>> \o Marker \o <<"5", "0", "0", "1">>
         \o Marker \o <<"5", "0", "0", "1", "0">>,
     <<BaseName("q40")>> \o Marker \o <<"5", "0", "0", "1">> \o Marker,
     <<"5", "0", "0", "1">>}

NamesImages ==
    {{[name |-> images_prefix("q40") \o n \o <<".", "tif">>, body |-> TifBody] :
         n \in N} : N \in SUBSET OddNames}

NamesRecords ==
    {{[name |-> metadata_prefix("q40") \o n \o <<".", "geojson">>,
       body |-> MetaBody(<<"5", "0", "0", "1", "0">>, 95, 95)] : n \in N} :
        N \in SUBSET OddRecords}

InitNames ==
    /\ InitRest
    /\ files = [NoFiles EXCEPT ![INITIAL_FAILED_LIST] = <<>>,
                               ![FAILED_LIST_FILE] = <<>>]
    /\ \E images \in NamesImages, records \in NamesRecords,
          own \in OrphanRecord(<<"5", "0", "0", "1">>) :
          bucket = images \cup records \cup own
    /\ pc = [stage |-> "names", k |-> 3, builds |-> 0]

NamesRound ==
    /\ pc.stage = "names"
    /\ ~reports[Tiers[pc.k]].moved
    /\ process_round(Tiers[pc.k], TRUE, [n \in StagedNames(Tiers[pc.k]) |-> "ok"])
    /\ UNCHANGED <<pc, merged, csv, master>>

NamesIndex ==
    /\ pc.stage = "names"
    /\ pc.builds = 0
    /\ generate_master_index
    /\ pc' = [pc EXCEPT !.builds = 1]
    /\ UNCHANGED <<bucket, files, reports, merged, csv>>

NextNames == NamesRound \/ NamesIndex

SpecNames == InitNames /\ [][NextNames]_vars

----------------------------------------------------------------------------
(* The claims *)

\* the identifiers a list file holds
IdsOf(content) ==
    IF content = NoFile THEN {}
    ELSE {Strip(content[i]) : i \in 1..Len(content)} \ {<<>>}

IsMetadata(b) == b.name[1] = "metadata_v9/" /\ EndsWithExt(b.name, "geojson")

\* the metadata records of unit u at tier t, in either area
RecordsAt(t, u) ==
    {b \in bucket : IsMetadata(b) /\ b.name[2] = VersionDir(t) /\ UnitOf(b) = u}

Universe ==
    {UnitOf(b) : b \in {x \in bucket : IsMetadata(x)}}
        \cup IdsOf(files[FAILED_LIST_FILE])

EntriesOf(u) == {i \in 1..Len(master) : master[i].id = u}

RowsOf(u) == {i \in 1..Len(csv) : csv[i].id = u}

\* C1: once generate_master_index has written the index, every unit of the
\* universe (a metadata record in some tier's primary or low-coverage area,
\* or a line of the failing list) has exactly one record in it.
C1_ExactlyOneRecordPerUnit ==
    pc.stage = "done" => \A u \in Universe : Cardinality(EntriesOf(u)) = 1

\* the worse of the two periods of a row's statistics, 0 without a record
WorseOf(st) == IF ~st.some THEN 0 ELSE IF st.c19 < st.c23 THEN st.c19 ELSE st.c23

RowWorse(row) == <<WorseOf(row.s65), WorseOf(row.s50), WorseOf(row.s40)>>

IsBest(w, i) == \A j \in 1..3 : w[j] <= w[i]

FallbackRow(row) == row.reason = "Best Available (Failed Strict)"

\* C2: in a fallback row of the selector, a tier is never the winner when a
\* tier of higher quality has the same, maximal, min(c19, c23).
C2_TieGoesToHigherTier ==
    pc.stage # "select" =>
        \A r \in 1..Len(csv) : FallbackRow(csv[r]) =>
            \A i \in 1..3 : \A j \in (i + 1)..3 :
                (/\ RowWorse(csv[r])[i] = RowWorse(csv[r])[j]
                 /\ IsBest(RowWorse(csv[r]), i))
                    => csv[r].winner # Tiers[j]

\* a tie on a positive maximum between q50 and q40, q65 below: q50 has won
C2_Witness ==
    /\ pc.stage # "select"
    /\ \E r \in 1..Len(csv) :
          /\ FallbackRow(csv[r])
          /\ RowWorse(csv[r])[2] = 50 /\ RowWorse(csv[r])[3] = 50
          /\ csv[r].s65.some /\ RowWorse(csv[r])[1] = 0
          /\ csv[r].winner = "q50"

\* C3: the tier the master index records for a unit of the failing list is
\* the tier the selector chose for it.
C3_IndexFollowsResolver ==
    pc.stage = "done" =>
        \A i \in 1..Len(master) : \A j \in 1..Len(csv) :
            master[i].id = csv[j].id => master[i].selected_quality = csv[j].winner

UsualReasons ==
    {"High Quality Pass", "Medium Quality Pass", "Low Quality Pass",
     "Best Available (Failed Strict)", "Strict Waterfall Pass",
     "Best Available Fallback", "Standard Audit Pass"}

\* C4: a unit of the failing list with no coverage record at any tier has
\* one record in the index and one row of the selector, both at q40 and
\* with a reason of their own.
C4_NoDataUnitMarked ==
    pc.stage = "done" =>
        \A u \in IdsOf(files[FAILED_LIST_FILE]) :
            (\A t \in TierSet : RecordsAt(t, u) = {}) =>
                /\ Cardinality(EntriesOf(u)) = 1
                /\ \A i \in EntriesOf(u) :
                      /\ master[i].selected_quality = "q40"
                      /\ master[i].selection_reason \notin UsualReasons
                /\ \A j \in RowsOf(u) :
                      /\ csv[j].winner = "q40"
                      /\ csv[j].reason \notin UsualReasons

\* a readable record: the producer's feature, with its municipality_id
IsReadable(b) == b.body.kind = "ok"

CovOrZero(v) == IF v = Absent THEN 0 ELSE v

BothPeriodsPass(b) ==
    /\ CovOrZero(b.body.c19) >= MINIMUM_COVERAGE_THRESHOLD
    /\ CovOrZero(b.body.c23) >= MINIMUM_COVERAGE_THRESHOLD

\* C5: process_round counts as passed exactly the readable records with both
\* coverages at or above the threshold (an absent field is 0); the id of
\* every other readable record is in the failing set of the round, and in
\* the list the round writes.
C5_PassIffBothPeriods ==
    \A t \in TierSet : reports[t].ran =>
        /\ reports[t].successful_count =
               Cardinality({b \in reports[t].audited :
                               IsReadable(b) /\ BothPeriodsPass(b)})
        /\ \A b \in reports[t].audited : IsReadable(b) =>
              /\ BothPeriodsPass(b) <=> b.body.mid \notin reports[t].low_coverage_ids
              /\ (~BothPeriodsPass(b) /\ reports[t].moved)
                     => b.body.mid \in IdsOf(files[OUTPUT_FAILED_LIST(t)])

\* one record passes at exactly the threshold, another fails for an absent
\* 2019 field only
C5_Witness ==
    /\ reports["q40"].moved
    /\ reports["q40"].successful_count = 1
    /\ \E b \in reports["q40"].audited :
          b.body.kind = "ok" /\ b.body.c19 = 95 /\ b.body.c23 = 95
    /\ \E b \in reports["q40"].audited :
          /\ b.body.kind = "ok" /\ b.body.c19 = Absent /\ b.body.c23 = 95
          /\ b.body.mid \in IdsOf(files[OUTPUT_FAILED_LIST("q40")])

\* C6: a unit of the round's input list with no coverage record at the
\* round's tier is in the failing list the round writes.
C6_MissingRecordFails ==
    \A t \in TierSet : reports[t].moved =>
        \A u \in IdsOf(files[INPUT_LIST_FILE(t)]) :
            RecordsAt(t, u) = {} => u \in IdsOf(files[OUTPUT_FAILED_LIST(t)])

\* C7: a unit whose record a round could not read is in the failing list of
\* that round and is no "Standard Audit Pass" of the index.
C7_MalformedFails ==
    \A t \in TierSet : reports[t].moved =>
        \A b \in reports[t].audited : ~IsReadable(b) =>
            /\ UnitOf(b) \in IdsOf(files[OUTPUT_FAILED_LIST(t)])
            /\ pc.stage = "done" =>
                  \A i \in EntriesOf(UnitOf(b)) :
                      master[i].selection_reason # "Standard Audit Pass"

\* the ids of the readable audited records that do not pass
FailedIn(audited) ==
    {b.body.mid : b \in {x \in audited : IsReadable(x) /\ ~BothPeriodsPass(x)}}

\* C8: the list merge_lists writes holds the ids of the two lists it read
\* and no other; the list process_round writes holds the ids of the initial
\* list and of the records that failed the round and no other.
C8_MergeIsUnion ==
    /\ merged.ran =>
          IdsOf(files[TARGET_LIST_FILE])
              = IdsOf(merged.initial_file) \cup IdsOf(merged.target_file)
    /\ \A t \in TierSet : reports[t].moved =>
          IdsOf(files[OUTPUT_FAILED_LIST(t)])
              = IdsOf(reports[t].initial_file) \cup FailedIn(reports[t].audited)

\* both lists gave an id the other did not have
C8_Witness ==
    /\ merged.ran
    /\ IdsOf(merged.initial_file) \ IdsOf(merged.target_file) # {}
    /\ IdsOf(merged.target_file) \ IdsOf(merged.initial_file) # {}
    /\ reports["q40"].moved
    /\ FailedIn(reports["q40"].audited) \ IdsOf(reports["q40"].initial_file) # {}

Canonical(content) ==
    /\ content # NoFile
    /\ \A i \in 1..Len(content) : content[i] # <<>> /\ Strip(content[i]) = content[i]
    /\ \A i \in 1..Len(content) : \A j \in 1..Len(content) :
          content[i] = content[j] => i = j

\* C9: a further run of merge_lists leaves the target list as the first run
\* wrote it, and the list written has no blank line and no id twice.
C9_MergeIdempotent ==
    /\ merged.again => files[TARGET_LIST_FILE] = merged.first
    /\ merged.ran => Canonical(files[TARGET_LIST_FILE])

\* a second run, on an initial list with a blank line and the same id twice
C9_Witness ==
    /\ merged.again
    /\ merged.initial_file # NoFile
    /\ \E i \in 1..Len(merged.initial_file) : merged.initial_file[i] = <<>>
    /\ \E i \in 1..Len(merged.initial_file) :
       \E j \in 1..Len(merged.initial_file) :
          /\ i # j
          /\ merged.initial_file[i] # <<>>
          /\ Strip(merged.initial_file[i]) = Strip(merged.initial_file[j])

PassedIn(audited) ==
    {b.body.mid : b \in {x \in audited : IsReadable(x) /\ BothPeriodsPass(x)}}

\* C10: a unit of the list written by one round that did not pass the next
\* round is in the list the next round writes.
C10_FailingSetGrows ==
    \A k \in 1..(Len(Tiers) - 1) : reports[Tiers[k + 1]].moved =>
        \A u \in IdsOf(files[OUTPUT_FAILED_LIST(Tiers[k])]) :
            u \notin PassedIn(reports[Tiers[k + 1]].audited)
                => u \in IdsOf(files[OUTPUT_FAILED_LIST(Tiers[k + 1])])

IsImage(b) == b.name[1] = "composites_v9/" /\ EndsWithExt(b.name, "tif")

\* C11: for an image whose extracted digit string has at most five digits,
\* the round takes it for an orphan (and moves it to the low-coverage area)
\* if and only if that very string is among the round's failed ids; an id
\* that is only a prefix, a suffix or an inner part of it does not count.
C11_OrphanExactMatch ==
    reports["q40"].moved =>
        \A b \in {x \in bucket : IsImage(x) /\ Len(UnitOf(x)) <= 5} :
            InLowCoverage(b.name) <=> UnitOf(b) \in reports["q40"].low_coverage_ids

C11_Witness ==
    /\ reports["q40"].moved
    /\ {<<"3", "4", "5">>, <<"2", "3", "4">>, <<"1", "2", "3", "4">>}
           \subseteq reports["q40"].low_coverage_ids
    /\ <<"1", "2", "3", "4", "5">> \notin reports["q40"].low_coverage_ids
    /\ \E b \in bucket :
          /\ IsImage(b) /\ UnitOf(b) = <<"1", "2", "3", "4", "5">>
          /\ ~InLowCoverage(b.name)
    /\ \E b \in bucket :
          /\ IsImage(b) /\ UnitOf(b) = <<"1", "2", "3", "4">>
          /\ InLowCoverage(b.name)

\* where the round puts a blob it relocates: the low-coverage directory of
\* the blob's own directory
Relocated(name) == SubSeq(name, 1, 2) \o LowCoverage \o SubSeq(name, 3, Len(name))

Done(m) == \A i \in 1..Len(pc.todo) : pc.todo[i] # m

\* C12: no step takes a blob away from its place unless a copy of it is at
\* its destination: a move that fails leaves the source where it was.
C12_SourceKeptUntilCopied ==
    [][\A b \in bucket :
          BlobNamed(bucket', b.name) = {} =>
              \E d \in bucket' : d.name = Relocated(b.name) /\ d.body = b.body]_vars

C12_Witness ==
    /\ pc.stage = "moving"
    /\ \E m \in Range(pc.staged) :
          /\ Done(m)
          /\ BlobNamed(bucket, m[1]) # {} /\ BlobNamed(bucket, m[2]) = {}
    /\ \E m \in Range(pc.staged) :
          /\ Done(m)
          /\ BlobNamed(bucket, m[1]) # {} /\ BlobNamed(bucket, m[2]) # {}
    /\ \E m \in Range(pc.staged) :
          /\ Done(m)
          /\ BlobNamed(bucket, m[1]) = {} /\ BlobNamed(bucket, m[2]) # {}

\* C13: whatever fails and whenever the run is killed or run again, every
\* blob the bucket held before the first run is, with its content, at its
\* place or at its destination; and when a run after a kill has ended,
\* what the kill left in both places is at its destination.
C13_NoArtifactLost ==
    /\ \A b \in pc.orig : \E x \in bucket :
          x.body = b.body /\ x.name \in {b.name, Relocated(b.name)}
    /\ pc.stage = "done" =>
          \A m \in pc.dups : \E b \in pc.orig, x \in bucket :
              b.name = m[1] /\ x.name = m[2] /\ x.body = b.body

C13_Witness ==
    /\ pc.stage = "done"
    /\ pc.runs = 2
    /\ \E m \in pc.dups :
          BlobNamed(bucket, m[1]) = {} /\ BlobNamed(bucket, m[2]) # {}

OfOtherTier(bk, t) == {b \in bk : b.name[2] # VersionDir(t)}

\* C15: the runs of the round of one tier leave every blob of every other
\* tier where it was, those of the units the round relocates too.
C15_OtherTiersUntouched ==
    OfOtherTier(bucket, Tiers[pc.k]) = OfOtherTier(pc.orig, Tiers[pc.k])

C15_Witness ==
    /\ pc.stage = "done"
    /\ \E b \in bucket, o \in bucket :
          /\ IsMetadata(b) /\ IsMetadata(o) /\ UnitOf(b) = UnitOf(o)
          /\ b.name[2] = VersionDir("q40") /\ InLowCoverage(b.name)
          /\ b.name \notin {x.name : x \in pc.orig}
          /\ o.name[2] = VersionDir("q50") /\ ~InLowCoverage(o.name)
          /\ ~BothPeriodsPass(o)

\* the list a single run writes from the lists and the bucket as they were
\* before the first run
ListOfOneRun(t) ==
    IdsOf(files[INITIAL_FAILED_LIST])
        \cup FailedIn({b \in pc.orig : /\ IsMetadata(b)
                                       /\ b.name[2] = VersionDir(t)
                                       /\ ~InLowCoverage(b.name)})

\* C16: a run of the round that ends, be it the first or a run after a run
\* that ended or was killed, writes the list that a single run writes.
C16_ResumedRunSameList ==
    pc.stage = "done" =>
        IdsOf(files[OUTPUT_FAILED_LIST(Tiers[pc.k])]) = ListOfOneRun(Tiers[pc.k])

IndexUnits ==
    IdsOf(files[FAILED_LIST_FILE])
        \cup {UnitOf(b) : b \in {x \in bucket : IsMetadata(x) /\ ~InLowCoverage(x.name)}}

\* C17: whatever the metadata of a unit is, the audit of the round counts
\* every readable record, the selection writes a row for every unit of the
\* list, and the index is written with an entry for every unit.
C17_UnitErrorDoesNotAbort ==
    /\ reports["q40"].ran =>
          /\ reports["q40"].low_coverage_ids = FailedIn(reports["q40"].audited)
          /\ reports["q40"].successful_count =
                Cardinality({b \in reports["q40"].audited :
                                IsReadable(b) /\ BothPeriodsPass(b)})
    /\ pc.selected =>
          \A u \in IdsOf(files[FAILED_LIST_FILE]) :
              \E r \in 1..Len(csv) : csv[r].id = u
    /\ pc.builds > 0 =>
          /\ ~pc.raised
          /\ \A u \in IndexUnits : \E i \in 1..Len(master) : master[i].id = u

\* no image of tier t that the finder takes for one of unit u
NoImageFor(u, t) ==
    ~\E b \in bucket :
        IsImage(b) /\ b.name[2] = VersionDir(t) /\ StartsWith(UnitOf(b), u)

\* C18: an index that is written has an entry for every unit it is built
\* for; the entry of a unit with no image at the selected tier has an empty
\* image_files, and with no record there it has empty properties.
C18_UnitWithoutArtifactsEmitted ==
    (pc.builds > 0 /\ ~pc.raised) =>
        \A u \in IndexUnits : \E i \in 1..Len(master) :
            /\ master[i].id = u
            /\ NoImageFor(u, master[i].selected_quality)
                   => master[i].image_files = <<>>
            /\ RecordsAt(master[i].selected_quality, u) = {}
                   => master[i].properties.kind = "None"

C18_Witness ==
    /\ pc.builds > 0 /\ ~pc.raised
    /\ \E i \in 1..Len(master), j \in 1..Len(master) :
          /\ master[i].image_files = <<>>
          /\ master[i].properties.kind = "None"
          /\ RecordsAt(master[i].selected_quality, master[i].id) = {}
          /\ master[j].image_files # <<>>

\* C19: no path is twice in the image_files of an entry.
C19_NoImageTwice ==
    \A e \in 1..Len(master) :
        \A i \in 1..Len(master[e].image_files) :
        \A j \in 1..Len(master[e].image_files) :
            master[e].image_files[i] = master[e].image_files[j] => i = j

\* the record of the unit at tier t passes the strict check
StrictAt(t, u) ==
    \E b \in RecordsAt(t, u) :
        /\ IsReadable(b)
        /\ CovOrZero(b.body.c19) >= ACCEPTABLE_COV
        /\ CovOrZero(b.body.c23) >= ACCEPTABLE_COV

\* no tier above Tiers[k] passes the strict check and Tiers[k] does
FirstStrict(k, u) ==
    StrictAt(Tiers[k], u) /\ \A h \in 1..(k - 1) : ~StrictAt(Tiers[h], u)

StrictReasons == {"High Quality Pass", "Medium Quality Pass", "Low Quality Pass"}

WorstAt(t, u) ==
    IF \E b \in RecordsAt(t, u) : IsReadable(b)
    THEN LET b == CHOOSE x \in RecordsAt(t, u) : IsReadable(x)
         IN  IF CovOrZero(b.body.c19) <= CovOrZero(b.body.c23)
             THEN CovOrZero(b.body.c19) ELSE CovOrZero(b.body.c23)
    ELSE 0

\* C21: when no tier passes the strict check for a unit, the row of the
\* selector has the reason of the fallback and its winner is a tier whose
\* min(c19, c23) is the greatest of the three, a tier without a record
\* counting as 0.
C21_FallbackTakesBestWorst ==
    \A r \in 1..Len(csv) :
        (\A t \in TierSet : ~StrictAt(t, csv[r].id)) =>
            /\ csv[r].reason = "Best Available (Failed Strict)"
            /\ \A t \in TierSet :
                  WorstAt(t, csv[r].id) <= WorstAt(csv[r].winner, csv[r].id)

C21_Witness ==
    /\ Len(csv) = 1
    /\ csv[1].reason = "Best Available (Failed Strict)"
    /\ csv[1].winner = "q40"
    /\ RecordsAt("q65", SelUnit) = {}
    /\ WorstAt("q50", SelUnit) = 0 /\ RecordsAt("q50", SelUnit) # {}
    /\ WorstAt("q40", SelUnit) = 50

\* the digits that follow the last marker of s, None when s has no marker
\* or no digit follows the last one
RunAfterLastMarker(s) ==
    IF \A i \in 1..(Len(s) - 1) : ~(s[i] = "_" /\ s[i + 1] = "m") THEN None
    ELSE LET at == CHOOSE i \in 1..(Len(s) - 1) :
                       /\ s[i] = "_" /\ s[i + 1] = "m"
                       /\ \A j \in (i + 1)..(Len(s) - 1) :
                              ~(s[j] = "_" /\ s[j + 1] = "m")
             n  == CHOOSE k \in 0..(Len(s) - at - 1) :
                       /\ \A j \in 1..k : s[at + 1 + j] \in Digits
                       /\ k = Len(s) - at - 1 \/ s[at + 2 + k] \notin Digits
         IN  IF n = 0 THEN None ELSE SubSeq(s, at + 2, at + 1 + n)

\* C22: for every blob the tier holds, each of the three extractions gives
\* the longest run of digits right after the last "_m" of the name, and no
\* match (None, the empty string, not an orphan) when the name has no
\* marker or no digit follows the last one; the round relocates the images
\* and the index lists the units accordingly.
C22_IdIsRunAfterLastMarker ==
    /\ \A b \in bucket :
          LET filename == Basename(b.name)
              run      == RunAfterLastMarker(filename)
          IN  /\ extract_mpio_id_from_filename(filename) = run
              /\ extract_id(b.name) =
                    IF RunAfterLastMarker(b.name) = None THEN <<>>
                    ELSE RunAfterLastMarker(b.name)
              /\ run = None => ~is_orphan(filename, Units)
              /\ run # None => is_orphan(filename, {run})
    /\ reports["q40"].moved =>
          \A b \in {x \in bucket : IsImage(x)} :
              InLowCoverage(b.name) <=>
                  RunAfterLastMarker(Basename(b.name)) \in reports["q40"].low_coverage_ids
    /\ pc.builds > 0 =>
          {master[i].id : i \in 1..Len(master)} =
              IdsOf(files[FAILED_LIST_FILE])
                \cup ({RunAfterLastMarker(b.name) :
                         b \in {x \in bucket : IsMetadata(x) /\ ~InLowCoverage(x.name)}}
                      \ {None})

C22_Witness ==
    /\ reports["q40"].moved
    /\ pc.builds > 0
    /\ Len(master) = 2
    /\ Cardinality({b \in bucket : IsMetadata(b) /\ ~InLowCoverage(b.name)}) = 3
    /\ Cardinality({b \in bucket : IsImage(b)}) = 7
    /\ Cardinality({b \in bucket : IsImage(b) /\ InLowCoverage(b.name)}) = 2

FirstOf(s, n) == IF Len(s) <= n THEN s ELSE SubSeq(s, 1, n)

\* C23: for an image whose extracted digit string has more than five
\* digits, the round takes it for an orphan if and only if the string, its
\* first five or its first four digits are among the round's failed ids; a
\* failed id that is its first three or first six digits does not count.
C23_TruncatedMatch ==
    reports["q40"].moved =>
        \A b \in {x \in bucket : IsImage(x) /\ Len(UnitOf(x)) > 5} :
            InLowCoverage(b.name) <=>
                \/ UnitOf(b) \in reports["q40"].low_coverage_ids
                \/ FirstOf(UnitOf(b), 5) \in reports["q40"].low_coverage_ids
                \/ FirstOf(UnitOf(b), 4) \in reports["q40"].low_coverage_ids

\* the first six and the first three digits have failed, the image of
\* seven digits stays; the first five have not, the first four have, the
\* image of six digits (one of the failed ids itself) is moved
C23_Witness ==
    /\ reports["q40"].moved
    /\ reports["q40"].low_coverage_ids =
          {<<"1", "2", "3">>, <<"1", "2", "3", "4", "5", "0">>}
    /\ \E b \in bucket :
          /\ IsImage(b) /\ UnitOf(b) = <<"1", "2", "3", "4", "5", "0", "0">>
          /\ ~InLowCoverage(b.name)
    /\ \E b \in bucket :
          /\ IsImage(b) /\ UnitOf(b) = <<"1", "2", "3", "4", "5", "0">>
          /\ InLowCoverage(b.name)

\* the staged move m of the run was made: the blob is at its destination only
MovedBy(m) == BlobNamed(bucket, m[1]) = {} /\ BlobNamed(bucket, m[2]) # {}

\* C24: relocation is best effort per artifact: whatever a call of
\* move_gcs_blob meets (a copy or a delete that raises, a source that is
\* gone), the loop goes on to the next staged artifact and to no other, and
\* the run ends, the list for the next round written from the run's total,
\* only when every staged artifact has been attempted.
C24_BestEffortMoves ==
    [][/\ (pc.stage = "moving" /\ pc'.stage = "moving" /\ bucket' = bucket
             /\ pc' # pc)
          => pc'.todo = Tail(pc.todo)
       /\ (pc.stage = "moving" /\ pc'.stage = "moving" /\ bucket' # bucket)
          => pc'.todo \in {pc.todo, Tail(pc.todo)}
       /\ (pc.stage = "moving" /\ pc'.stage = "done")
          => /\ pc.todo = <<>>
             /\ files'[OUTPUT_FAILED_LIST(Tiers[pc.k])] =
                    WriteIdList(reports[Tiers[pc.k]].total)]_vars

\* the first run has ended and its list is written; of its staged blobs one
\* was gone when its move came, one is still at its source, its move having
\* failed, and one staged after both was moved
C24_Witness ==
    /\ pc.stage = "done" /\ pc.runs = 1
    /\ files[OUTPUT_FAILED_LIST(Tiers[pc.k])] =
          WriteIdList(reports[Tiers[pc.k]].total)
    /\ \E i, j, l \in 1..Len(pc.staged) :
          /\ i < l /\ j < l
          /\ BlobNamed(bucket, pc.staged[i][1]) = {}
          /\ BlobNamed(bucket, pc.staged[i][2]) = {}
          /\ BlobNamed(bucket, pc.staged[j][1]) # {}
          /\ BlobNamed(bucket, pc.staged[j][2]) = {}
          /\ MovedBy(pc.staged[l])

\* a record of the unit at tier t, in either area, passes the audit
PassingAt(t, u) ==
    \E b \in RecordsAt(t, u) : IsReadable(b) /\ BothPeriodsPass(b)

\* C25: the tier the index records for a unit with the reason 'Standard
\* Audit Pass' is the first of q65, q50, q40 at which the unit has a
\* coverage record with both periods at or above the threshold.
C25_StandardTierIsFirstPassing ==
    pc.stage = "done" =>
        \A i \in 1..Len(master) :
            master[i].selection_reason = "Standard Audit Pass" =>
                \E k \in 1..Len(Tiers) :
                    /\ master[i].selected_quality = Tiers[k]
                    /\ PassingAt(Tiers[k], master[i].id)
                    /\ \A h \in 1..(k - 1) : ~PassingAt(Tiers[h], master[i].id)

\* C26: the image_files of an entry of the index are exactly the images of
\* the selected tier, in its primary or its low-coverage area, whose
\* extracted id is the id of the entry: a relocated image is listed, an
\* image of another unit is not.
C26_ImagesOfTheUnitOnly ==
    \A e \in 1..Len(master) :
        Range(master[e].image_files) =
            {GsPath(b.name) :
                b \in {x \in bucket :
                          /\ IsImage(x)
                          /\ x.name[2] = VersionDir(master[e].selected_quality)
                          /\ UnitOf(x) = master[e].id}}

\* the units of the failing set of some round: what the round was given
\* and what it found below the threshold
EverFailed == UNION {reports[t].total : t \in {q \in TierSet : reports[q].ran}}

WaterfallReasons == {"Strict Waterfall Pass", "Best Available Fallback"}

\* C27: in the index a unit has the reason 'Standard Audit Pass' only if it
\* was in the failing set of no round, and every unit that was in the
\* failing set of a round has an entry made by the waterfall.
C27_StandardNeverFailed ==
    pc.stage = "done" =>
        /\ \A i \in 1..Len(master) :
              master[i].selection_reason = "Standard Audit Pass" =>
                  master[i].id \notin EverFailed
        /\ \A u \in EverFailed :
              \E i \in EntriesOf(u) : master[i].selection_reason \in WaterfallReasons

\* C28: when a run of the round with moves has ended, every move it
\* attempted having been made, after earlier runs that were killed or not,
\* no metadata and no image of a unit that failed the round is left in the
\* primary area of the tier.
C28_FailedUnitsLeavePrimary ==
    (pc.stage = "done" /\ \A i \in 1..Len(pc.staged) : MovedBy(pc.staged[i])) =>
        \A b \in bucket :
            (/\ IsMetadata(b) \/ IsImage(b)
             /\ b.name[2] = VersionDir(Tiers[pc.k])
             /\ ~InLowCoverage(b.name))
                => UnitOf(b) \notin FailedIn(metadata_blobs(pc.orig, Tiers[pc.k]))

\* C29: a run of process_round with PERFORM_MOVE = False moves, copies and
\* deletes no blob and writes no list: it only reports.
C29_DryRunChangesNothing ==
    [][(reports' # reports /\ \E t \in TierSet : reports'[t] # reports[t]
                                                  /\ ~reports'[t].moved)
          => (bucket' = bucket /\ files' = files)]_vars

\* a dry run has reported a failed unit whose record and image are still in
\* the primary area, and the list for the next round does not exist
C29_Witness ==
    /\ reports["q40"].ran /\ ~reports["q40"].moved
    /\ files[OUTPUT_FAILED_LIST("q40")] = NoFile
    /\ \E u \in reports["q40"].low_coverage_ids :
          /\ \E b \in bucket :
                IsMetadata(b) /\ UnitOf(b) = u /\ ~InLowCoverage(b.name)
          /\ \E b \in bucket :
                IsImage(b) /\ UnitOf(b) = u /\ ~InLowCoverage(b.name)

\* the places of the directory low_coverage/ in a blob name
LowAt(name) == {i \in 1..Len(name) : name[i] = "low_coverage/"}

\* C30: a blob of a low-coverage area is never audited, staged or moved
\* again: every run audits and stages blobs of the primary area only, each
\* for the low-coverage directory right below the prefix of its tier, and no
\* blob name has low_coverage/ twice or anywhere else.
C30_RelocatedOnce ==
    /\ \A b \in bucket : LowAt(b.name) \in {{}, {3}}
    /\ \A t \in TierSet : \A b \in reports[t].audited : LowAt(b.name) = {}
    /\ \A i \in 1..Len(pc.staged) :
          /\ LowAt(pc.staged[i][1]) = {}
          /\ pc.staged[i][2] = Relocated(pc.staged[i][1])

\* a second run has staged and moved the record of a unit, left by the
\* first run, next to the unit's image that the first run had relocated
C30_Witness ==
    /\ pc.runs = 2 /\ pc.stage = "done" /\ pc.staged # <<>>
    /\ \A i \in 1..Len(pc.staged) : MovedBy(pc.staged[i])
    /\ \E b \in bucket, i \in 1..Len(pc.staged) :
          /\ IsImage(b) /\ InLowCoverage(b.name)
          /\ b.name[2] = VersionDir(Tiers[pc.k])
          /\ UnitOf(b) = DigitRun(SplitLast(pc.staged[i][1]))

====
